---------------------------- MODULE Spec2Model ----------------------------
(***************************************************************************)
(* Model of src/analysis/bottleneck_analysis.py: the helpdesk event-log    *)
(* pipeline (load, stage cycle times, bottlenecks, priority cross-tab,     *)
(* resolution times, improvement impact, recommendations).                 *)
(*                                                                         *)
(* Units.  A Timestamp is a whole number of milli-hours (3.6 s) since an   *)
(* arbitrary origin, so every value "in hours" of the program (Duration_   *)
(* Hours, Avg_Hours, Total_Hours, threshold_hours, the bin edges) is the   *)
(* integer 1000 * hours.  improvement_pct is held in percent (0.30 is 30). *)
(* Quotients that the program forms in floating point (a mean, the chain   *)
(* of products of calculate_improvement_impact) are exact rationals        *)
(* [n |-> numerator, d |-> denominator] here; round(., k) rounds an exact  *)
(* rational half-to-even, as numpy.round and Python's round document.      *)
(*                                                                         *)
(* The two single-column sort_values calls of calculate_stage_cycle_times  *)
(* use the default kind='quicksort', which is not a stable sort: the order *)
(* of rows with equal keys is any order.  load_and_prepare_data sorts by   *)
(* two columns, which pandas does with a stable lexsort.                   *)
(***************************************************************************)
EXTENDS Integers, Sequences, FiniteSets, TLC

VARIABLES
    pc,               \* position in the script, or the pending direct call
    csv,              \* rows of the input file, in file order
    df,               \* the event table handed to the analysis functions
    stage_df,         \* transitions (stage_times) of calculate_stage_cycle_times
    stage_pairs,      \* history: for each transition, <<row of df it starts at, row it ends at>>
    stage_summary,    \* StageSummary rows, in table order
    bottlenecks,      \* rows of identify_bottlenecks, with Severity
    priority_pivot,   \* analyze_by_priority: <<From_Stage, Priority>> -> mean
    resolution_df,    \* rows of calculate_total_resolution_time
    impact,           \* dict of calculate_improvement_impact
    recommendations,  \* rows of generate_recommendations
    args              \* arguments the calls were made with

vars == <<pc, csv, df, stage_df, stage_pairs, stage_summary, bottlenecks,
          priority_pivot, resolution_df, impact, recommendations, args>>

-----------------------------------------------------------------------------
(* Bounds of the model *)

MaxEvents == 3

MaxStages == 3

(* milli-hours per hour: the unit of every "hours" value of the model *)
Hour == 10 * 100

(* Program constants *)
DefaultThresholdHours == 20

DefaultAnnualTickets == 500

DefaultImprovementPct == 30

DefaultHourlyCost == 30

BinEdgeModerate == 30

BinEdgeHigh == 40

TopN == 2

WorkYearHours == 2080

SummaryDecimals == 2

-----------------------------------------------------------------------------
(* Input domains *)

CaseIds == {1, 2}

(* Stage names in the order Python compares strings (groupby sorts its keys) *)
StageNames == <<"Closed", "Investigation Started", "Opened", "Solution Implemented">>

Activities == {"Investigation Started", "Solution Implemented"}

(* 0 h, 20.004 h, 40 h *)
Times == {0, 20004, 40000}

Priorities == {"High", "Low"}

Categories == {"Hardware", "Software"}

(* Events of the script's input file: Priority and Category are attributes
   of the ticket, the same on every event of a case. *)
TicketEvents ==
    { [Case_ID |-> c, Activity |-> a, Timestamp |-> t,
       Priority |-> IF c = 1 THEN "High" ELSE "Low",
       Category |-> IF c = 1 THEN "Hardware" ELSE "Software"] :
      c \in CaseIds, a \in Activities, t \in Times }

SeqsUpTo(S, n) == UNION { [1..k -> S] : k \in 0..n }

-----------------------------------------------------------------------------
(* Arithmetic helpers *)

RECURSIVE GCD(_, _)
GCD(a, b) == IF b = 0 THEN a ELSE GCD(b, a % b)

Rat(n, d) == LET g == GCD(n, d) IN IF g = 0 THEN [n |-> 0, d |-> 1] ELSE [n |-> n \div g, d |-> d \div g]

RatMul(x, k) == Rat(x.n * k, x.d)

RatDiv(x, k) == Rat(x.n, x.d * k)

Pow10(k) == IF k = 0 THEN 1 ELSE IF k = 1 THEN 10 ELSE IF k = 2 THEN 100 ELSE 1000

(* nearest integer to n/d (n >= 0, d > 0), ties to even *)
RoundHalfEven(n, d) ==
    LET q == n \div d
        r == n % d
    IN  IF 2 * r < d THEN q
        ELSE IF 2 * r > d THEN q + 1
        ELSE IF q % 2 = 0 THEN q ELSE q + 1

(* round(x, k) of Python for the rational x: the count of 10^-k units *)
PyRound(x, k) == RoundHalfEven(x.n * Pow10(k), x.d)

(* DataFrame.round(2) of a value of n/d milli-hours: a multiple of 0.01 h *)
Round2(n, d) == 10 * RoundHalfEven(n, d * Pow10(3 - SummaryDecimals))

RECURSIVE SumSeq(_)
SumSeq(s) == IF s = <<>> THEN 0 ELSE Head(s) + SumSeq(Tail(s))

Range(s) == { s[i] : i \in DOMAIN s }

SetMin(S) == CHOOSE x \in S : \A y \in S : x <= y

SetMax(S) == CHOOSE x \in S : \A y \in S : x >= y

-----------------------------------------------------------------------------
(* load_and_prepare_data *)

LoadKeyLess(a, b) ==
    \/ a.Case_ID < b.Case_ID
    \/ a.Case_ID = b.Case_ID /\ a.Timestamp < b.Timestamp

(* insert e behind every row that is not greater than it: a stable sort step *)
InsertByKey(s, e) ==
    LET later == { i \in DOMAIN s : LoadKeyLess(e, s[i]) }
        at == IF later = {} THEN Len(s) + 1 ELSE SetMin(later)
    IN  SubSeq(s, 1, at - 1) \o <<e>> \o SubSeq(s, at, Len(s))

RECURSIVE SortByCaseAndTime(_)
SortByCaseAndTime(s) ==
    IF s = <<>> THEN <<>>
    ELSE InsertByKey(SortByCaseAndTime(SubSeq(s, 1, Len(s) - 1)), s[Len(s)])

load_and_prepare_data(rows) == SortByCaseAndTime(rows)

-----------------------------------------------------------------------------
(* df['Case_ID'].unique(): the case ids in order of first appearance *)

RECURSIVE Unique(_)
Unique(s) ==
    IF s = <<>> THEN <<>>
    ELSE LET u == Unique(SubSeq(s, 1, Len(s) - 1))
             x == s[Len(s)]
         IN  IF x \in Range(u) THEN u ELSE Append(u, x)

CaseIdsOf(d) == Unique([i \in DOMAIN d |-> d[i].Case_ID])

(* df[df['Case_ID'] == case_id]: the rows' positions, in table order *)
CaseRows(d, c) == { i \in DOMAIN d : d[i].Case_ID = c }

RECURSIVE SetToSeq(_)
SetToSeq(S) ==
    IF S = {} THEN <<>>
    ELSE LET m == SetMin(S) IN <<m>> \o SetToSeq(S \ {m})


-----------------------------------------------------------------------------
(* calculate_stage_cycle_times *)

(* the case's rows as filtered, not sorted *)
RowsInTableOrder(d, S) == { SetToSeq(S) }

(* The outcomes of sorting the rows S of d by Timestamp, ascending, with a
   sort that is not stable: every order of the positions that is ascending. *)
RECURSIVE SortedOrders(_, _)
SortedOrders(d, S) ==
    IF S = {} THEN { <<>> }
    ELSE LET m == SetMin({ d[i].Timestamp : i \in S })
         IN  UNION { { <<i>> \o r : r \in SortedOrders(d, S \ {i}) } :
                     i \in { j \in S : d[j].Timestamp = m } }

(* for i in range(len(case_data) - 1): the pair (iloc[i], iloc[i+1]) *)
CasePairs(o) == [k \in 1..(Len(o) - 1) |-> <<o[k], o[k + 1]>>]

(* timedelta.seconds in place of total_seconds(): whole days are dropped *)
TransitionHoursSecondsOnly(a, b) == (b.Timestamp - a.Timestamp) % (24 * Hour)

(* (t[i+1] - t[i]).total_seconds() / 3600 *)
TransitionHours(a, b) == b.Timestamp - a.Timestamp

Transition(d, p) ==
    [From_Stage     |-> d[p[1]].Activity,
     To_Stage       |-> d[p[2]].Activity,
     Duration_Hours |-> TransitionHours(d[p[1]], d[p[2]]),
     Priority       |-> d[p[1]].Priority,
     Category       |-> d[p[1]].Category]

(* the outer loop over the cases: every outcome of the per-case sorts *)
RECURSIVE PairOutcomes(_, _)
PairOutcomes(d, cases) ==
    IF cases = <<>> THEN { <<>> }
    ELSE { CasePairs(o) \o rest :
           o \in SortedOrders(d, CaseRows(d, Head(cases))),
           rest \in PairOutcomes(d, Tail(cases)) }

(* groupby('From_Stage'): the keys observed, sorted *)
GroupKeys(st) ==
    SelectSeq(StageNames, LAMBDA s : \E i \in DOMAIN st : st[i].From_Stage = s)

GroupDurations(st, s) ==
    LET g == SelectSeq(st, LAMBDA r : r.From_Stage = s)
    IN  [i \in DOMAIN g |-> g[i].Duration_Hours]

RECURSIVE SortInts(_)
SortInts(s) ==
    IF s = <<>> THEN <<>>
    ELSE LET m == SetMin(Range(s))
             at == SetMin({ i \in DOMAIN s : s[i] = m })
         IN  <<m>> \o SortInts(SubSeq(s, 1, at - 1) \o SubSeq(s, at + 1, Len(s)))

Median(ds) ==
    LET o == SortInts(ds)
        n == Len(o)
    IN  IF n % 2 = 1 THEN Round2(o[(n + 1) \div 2], 1)
        ELSE Round2(o[n \div 2] + o[n \div 2 + 1], 2)

(* one row of .agg([mean, median, std, count]).round(2); the sample standard
   deviation of a single observation is NaN *)
SummaryRow(st, s) ==
    LET ds == GroupDurations(st, s)
    IN  [From_Stage   |-> s,
         Avg_Hours    |-> Round2(SumSeq(ds), Len(ds)),
         Median_Hours |-> Median(ds),
         Std_Hours    |-> IF Len(ds) = 1 THEN "NaN" ELSE "defined",
         Count        |-> Len(ds)]

Aggregate(st) ==
    LET keys == GroupKeys(st) IN [i \in DOMAIN keys |-> SummaryRow(st, keys[i])]

(* sort_values('Avg_Hours', ascending=False), kind='quicksort': every order
   of the rows that is descending in Avg_Hours *)
RECURSIVE DescendingOrders(_, _)
DescendingOrders(rows, S) ==
    IF S = {} THEN { <<>> }
    ELSE LET m == SetMax({ rows[i].Avg_Hours : i \in S })
         IN  UNION { { <<i>> \o r : r \in DescendingOrders(rows, S \ {i}) } :
                     i \in { j \in S : rows[j].Avg_Hours = m } }

SummaryOutcomes(st) ==
    LET rows == Aggregate(st)
    IN  { [k \in DOMAIN o |-> rows[o[k]]] : o \in DescendingOrders(rows, DOMAIN rows) }

(* What a call can do: raise KeyError('From_Stage') when no transition was
   collected (pd.DataFrame([]) has no columns), else return (stage_df, summary). *)
calculate_stage_cycle_times(d) ==
    UNION { LET st == [k \in DOMAIN ps |-> Transition(d, ps[k])]
            IN  IF st = <<>>
                THEN { [raised |-> TRUE, stage_df |-> <<>>, pairs |-> <<>>, summary |-> <<>>] }
                ELSE { [raised |-> FALSE, stage_df |-> st, pairs |-> ps, summary |-> sm] :
                       sm \in SummaryOutcomes(st) } :
            ps \in PairOutcomes(d, CaseIdsOf(d)) }

-----------------------------------------------------------------------------
(* identify_bottlenecks *)

(* bins closed on the left *)
SeverityLeftClosed(avg) ==
    IF avg >= 0 /\ avg < BinEdgeModerate * Hour THEN "MODERATE"
    ELSE IF avg >= BinEdgeModerate * Hour /\ avg < BinEdgeHigh * Hour THEN "HIGH"
    ELSE IF avg >= BinEdgeHigh * Hour THEN "CRITICAL"
    ELSE "NaN"

(* pd.cut(bins=[0, 30, 40, inf], labels=[...]), right=True by default *)
Severity(avg) ==
    IF avg > 0 /\ avg <= BinEdgeModerate * Hour THEN "MODERATE"
    ELSE IF avg > BinEdgeModerate * Hour /\ avg <= BinEdgeHigh * Hour THEN "HIGH"
    ELSE IF avg > BinEdgeHigh * Hour THEN "CRITICAL"
    ELSE "NaN"

identify_bottlenecks(summary, threshold_hours) ==
    LET kept == SelectSeq(summary, LAMBDA r : r.Avg_Hours > threshold_hours)
    IN  [i \in DOMAIN kept |->
            [From_Stage   |-> kept[i].From_Stage,
             Avg_Hours    |-> kept[i].Avg_Hours,
             Median_Hours |-> kept[i].Median_Hours,
             Std_Hours    |-> kept[i].Std_Hours,
             Count        |-> kept[i].Count,
             Severity     |-> Severity(kept[i].Avg_Hours)]]

-----------------------------------------------------------------------------
(* analyze_by_priority *)

analyze_by_priority(st) ==
    LET stages == Range(GroupKeys(st))
        prios  == { st[i].Priority : i \in DOMAIN st }
    IN  [sp \in stages \X prios |->
            LET g == SelectSeq(st, LAMBDA r : r.From_Stage = sp[1] /\ r.Priority = sp[2])
            IN  IF g = <<>> THEN 0
                ELSE Round2(SumSeq([i \in DOMAIN g |-> g[i].Duration_Hours]), Len(g))]

-----------------------------------------------------------------------------
(* calculate_total_resolution_time *)

(* (end - start).total_seconds() / 3600 *)
TotalHours(start, end) == end - start

(* Priority and Category read from iloc[-1] *)
ResolutionRowLast(d, c) ==
    LET rows  == CaseRows(d, c)
        start == SetMin({ d[i].Timestamp : i \in rows })
        end   == SetMax({ d[i].Timestamp : i \in rows })
        last  == SetMax(rows)
    IN  [Case_ID     |-> c,
         Total_Hours |-> TotalHours(start, end),
         Priority    |-> d[last].Priority,
         Category    |-> d[last].Category]

(* one dict of resolution_times: min, max, and iloc[0] of the case's rows *)
ResolutionRow(d, c) ==
    LET rows  == CaseRows(d, c)
        start == SetMin({ d[i].Timestamp : i \in rows })
        end   == SetMax({ d[i].Timestamp : i \in rows })
        first == SetMin(rows)
    IN  [Case_ID     |-> c,
         Total_Hours |-> TotalHours(start, end),
         Priority    |-> d[first].Priority,
         Category    |-> d[first].Category]

calculate_total_resolution_time(d) ==
    LET cases == CaseIdsOf(d) IN [i \in DOMAIN cases |-> ResolutionRow(d, cases[i])]

-----------------------------------------------------------------------------
(* calculate_improvement_impact.  The values the dict holds with two
   decimals are counts of hundredths; those with none are whole numbers. *)

(* the n rows of largest Avg_Hours, the first of equal ones first *)
RECURSIVE NLargest(_, _, _)
NLargest(rows, S, n) ==
    IF n = 0 \/ S = {} THEN <<>>
    ELSE LET m == SetMax({ rows[i].Avg_Hours : i \in S })
             i == SetMin({ j \in S : rows[j].Avg_Hours = m })
         IN  <<rows[i]>> \o NLargest(rows, S \ {i}, n - 1)

(* head(2): the first two rows of the table as passed *)
TopBottlenecksHead(summary) ==
    SubSeq(summary, 1, IF Len(summary) < TopN THEN Len(summary) ELSE TopN)

(* stage_summary.nlargest(2, 'Avg_Hours') *)
TopBottlenecks(summary) == NLargest(summary, DOMAIN summary, TopN)

(* top_bottlenecks['Avg_Hours'].sum(), in hours *)
TotalBottleneckHours(summary) ==
    LET top == TopBottlenecks(summary)
    IN  Rat(SumSeq([i \in DOMAIN top |-> top[i].Avg_Hours]), Hour)

(* the share that remains in place of the share that is saved *)
HoursRemainingPerTicket(total, improvement_pct) ==
    Rat(total.n * (100 - improvement_pct), total.d * 100)

(* total_bottleneck_hours * improvement_pct *)
HoursSavedPerTicket(total, improvement_pct) ==
    Rat(total.n * improvement_pct, total.d * 100)

(* the unrounded locals of the function *)
ImpactLocals(summary, annual_tickets, improvement_pct, hourly_cost) ==
    LET total  == TotalBottleneckHours(summary)
        saved  == HoursSavedPerTicket(total, improvement_pct)
        annual == RatMul(saved, annual_tickets)
    IN  [total_bottleneck_hours |-> total,
         hours_saved_per_ticket |-> saved,
         annual_hours_saved     |-> annual,
         annual_cost_savings    |-> RatMul(annual, hourly_cost),
         fte_equivalency        |-> RatDiv(annual, WorkYearHours)]

calculate_improvement_impact(summary, annual_tickets, improvement_pct, hourly_cost) ==
    LET v == ImpactLocals(summary, annual_tickets, improvement_pct, hourly_cost)
    IN  [bottleneck_hours_per_ticket |-> PyRound(v.total_bottleneck_hours, 2),
         hours_saved_per_ticket      |-> PyRound(v.hours_saved_per_ticket, 2),
         annual_hours_saved          |-> PyRound(v.annual_hours_saved, 0),
         annual_cost_savings         |-> PyRound(v.annual_cost_savings, 0),
         fte_equivalency             |-> PyRound(v.fte_equivalency, 2)]

-----------------------------------------------------------------------------
(* generate_recommendations *)

ReminderRecommendation ==
    [Issue           |-> "Long wait times for customer responses",
     Action          |-> "Implement automated reminder system for tickets waiting >48 hours",
     Expected_Impact |-> "20-30% reduction in customer response wait time"]

VerificationRecommendation ==
    [Issue           |-> "Delays in customer verification of solutions",
     Action          |-> "Create self-service verification portal with auto-close after 72 hours",
     Expected_Impact |-> "25% reduction in verification cycle time"]

ResourcingRecommendation ==
    [Issue           |-> "Critical priority tickets experiencing same delays as low priority",
     Action          |-> "Dedicate resources for critical/high priority tickets with <4 hour SLA",
     Expected_Impact |-> "40% improvement in critical ticket resolution time"]

KnowledgeBaseRecommendation ==
    [Issue           |-> "Repetitive investigation work for similar issues",
     Action          |-> "Build searchable knowledge base with solution templates",
     Expected_Impact |-> "15-20% reduction in investigation time"]

(* bottlenecks.index: the From_Stage labels of its rows *)
IndexOf(table) == { table[i].From_Stage : i \in DOMAIN table }

(* both stage rules test the same label *)
generate_recommendations_same_label(bns, priority_analysis) ==
    (IF "Investigation Started" \in IndexOf(bns) THEN <<ReminderRecommendation>> ELSE <<>>)
    \o (IF "Investigation Started" \in IndexOf(bns) THEN <<VerificationRecommendation>> ELSE <<>>)
    \o <<ResourcingRecommendation, KnowledgeBaseRecommendation>>

generate_recommendations(bns, priority_analysis) ==
    (IF "Investigation Started" \in IndexOf(bns) THEN <<ReminderRecommendation>> ELSE <<>>)
    \o (IF "Solution Implemented" \in IndexOf(bns) THEN <<VerificationRecommendation>> ELSE <<>>)
    \o <<ResourcingRecommendation, KnowledgeBaseRecommendation>>

-----------------------------------------------------------------------------
(* The script (__main__): every call is made with the defaults *)

NoArgs ==
    [threshold_hours |-> 0, annual_tickets |-> 0, improvement_pct |-> 0,
     hourly_cost |-> 0, priority_analysis |-> <<>>]

Blank ==
    /\ df = <<>>
    /\ stage_df = <<>>
    /\ stage_pairs = <<>>
    /\ stage_summary = <<>>
    /\ bottlenecks = <<>>
    /\ priority_pivot = <<>>
    /\ resolution_df = <<>>
    /\ impact = <<>>
    /\ recommendations = <<>>
    /\ args = NoArgs

Init ==
    /\ pc = "load"
    /\ csv \in SeqsUpTo(TicketEvents, MaxEvents)
    /\ Blank

Load ==
    /\ pc = "load"
    /\ df' = load_and_prepare_data(csv)
    /\ pc' = "cycle"
    /\ UNCHANGED <<csv, stage_df, stage_pairs, stage_summary, bottlenecks,
                   priority_pivot, resolution_df, impact, recommendations, args>>

CycleTimes ==
    /\ pc = "cycle"
    /\ \E out \in calculate_stage_cycle_times(df) :
          /\ pc' = IF out.raised THEN "error" ELSE "identify"
          /\ stage_df' = out.stage_df
          /\ stage_pairs' = out.pairs
          /\ stage_summary' = out.summary
    /\ UNCHANGED <<csv, df, bottlenecks, priority_pivot, resolution_df, impact,
                   recommendations, args>>

IdentifyBottlenecks ==
    /\ pc = "identify"
    /\ bottlenecks' = identify_bottlenecks(stage_summary, DefaultThresholdHours * Hour)
    /\ args' = [args EXCEPT !.threshold_hours = DefaultThresholdHours * Hour]
    /\ pc' = "priority"
    /\ UNCHANGED <<csv, df, stage_df, stage_pairs, stage_summary, priority_pivot,
                   resolution_df, impact, recommendations>>

AnalyzeByPriority ==
    /\ pc = "priority"
    /\ priority_pivot' = analyze_by_priority(stage_df)
    /\ pc' = "resolution"
    /\ UNCHANGED <<csv, df, stage_df, stage_pairs, stage_summary, bottlenecks,
                   resolution_df, impact, recommendations, args>>

ResolutionTime ==
    /\ pc = "resolution"
    /\ resolution_df' = calculate_total_resolution_time(df)
    /\ pc' = "impact"
    /\ UNCHANGED <<csv, df, stage_df, stage_pairs, stage_summary, bottlenecks,
                   priority_pivot, impact, recommendations, args>>

ImprovementImpact ==
    /\ pc = "impact"
    /\ impact' = calculate_improvement_impact(stage_summary, DefaultAnnualTickets,
                                              DefaultImprovementPct, DefaultHourlyCost)
    /\ args' = [args EXCEPT !.annual_tickets = DefaultAnnualTickets,
                            !.improvement_pct = DefaultImprovementPct,
                            !.hourly_cost = DefaultHourlyCost]
    /\ pc' = "recommend"
    /\ UNCHANGED <<csv, df, stage_df, stage_pairs, stage_summary, bottlenecks,
                   priority_pivot, resolution_df, recommendations>>

Recommend ==
    /\ pc = "recommend"
    /\ recommendations' = generate_recommendations(bottlenecks, priority_pivot)
    /\ args' = [args EXCEPT !.priority_analysis = priority_pivot]
    /\ pc' = "done"
    /\ UNCHANGED <<csv, df, stage_df, stage_pairs, stage_summary, bottlenecks,
                   priority_pivot, resolution_df, impact>>

Next ==
    \/ Load
    \/ CycleTimes
    \/ IdentifyBottlenecks
    \/ AnalyzeByPriority
    \/ ResolutionTime
    \/ ImprovementImpact
    \/ Recommend

Spec == Init /\ [][Next]_vars

-----------------------------------------------------------------------------
(* Direct calls of the functions, with arguments of the caller's choice:
   an event table in any row order, any summary table, any threshold *)

CallTimes == {0, 20004}

CallEvents ==
    { [Case_ID |-> c, Activity |-> "Opened", Timestamp |-> t,
       Priority |-> p, Category |-> g] :
      c \in CaseIds, t \in CallTimes, p \in Priorities, g \in Categories }

(* 0.12 h, 10 h, 30 h, 40 h, 50 h *)
AvgValues == {120, 10000, 30000, 40000, 50000}

SummaryRowsIn ==
    { [From_Stage |-> s, Avg_Hours |-> a, Median_Hours |-> a,
       Std_Hours |-> "NaN", Count |-> 1] :
      s \in Range(StageNames), a \in AvgValues }

Summaries ==
    { t \in SeqsUpTo(SummaryRowsIn, MaxStages) :
        \A i, j \in DOMAIN t : i # j => t[i].From_Stage # t[j].From_Stage }

Thresholds == {0, DefaultThresholdHours * Hour, BinEdgeModerate * Hour}

TicketCounts == {7, DefaultAnnualTickets}

ImprovementPcts == {15, DefaultImprovementPct}

HourlyCosts == {DefaultHourlyCost}

PriorityArgs == { <<>>, [sp \in {<<"Opened", "High">>} |-> 5000] }

InitCalls ==
    /\ csv = <<>>
    /\ stage_df = <<>>
    /\ stage_pairs = <<>>
    /\ bottlenecks = <<>>
    /\ priority_pivot = <<>>
    /\ resolution_df = <<>>
    /\ impact = <<>>
    /\ recommendations = <<>>
    /\ args = NoArgs
    /\ \/ /\ pc = "call_on_events"
          /\ df \in SeqsUpTo(CallEvents, MaxEvents)
          /\ stage_summary = <<>>
       \/ /\ pc = "call_on_log"
          /\ df \in SeqsUpTo(TicketEvents, MaxEvents)
          /\ stage_summary = <<>>
       \/ /\ pc = "call_on_summary"
          /\ df = <<>>
          /\ stage_summary \in Summaries

CallCycleTimes ==
    /\ pc = "call_on_log"
    /\ \E out \in calculate_stage_cycle_times(df) :
          /\ pc' = IF out.raised THEN "raised" ELSE "cycled"
          /\ stage_df' = out.stage_df
          /\ stage_pairs' = out.pairs
          /\ stage_summary' = out.summary
    /\ UNCHANGED <<csv, df, bottlenecks, priority_pivot, resolution_df, impact,
                   recommendations, args>>

CallResolutionTime ==
    /\ pc = "call_on_events"
    /\ resolution_df' = calculate_total_resolution_time(df)
    /\ pc' = "resolved"
    /\ UNCHANGED <<csv, df, stage_df, stage_pairs, stage_summary, bottlenecks,
                   priority_pivot, impact, recommendations, args>>

CallIdentifyBottlenecks ==
    /\ pc = "call_on_summary"
    /\ \E th \in Thresholds :
          /\ bottlenecks' = identify_bottlenecks(stage_summary, th)
          /\ args' = [args EXCEPT !.threshold_hours = th]
    /\ pc' = "identified"
    /\ UNCHANGED <<csv, df, stage_df, stage_pairs, stage_summary, priority_pivot,
                   resolution_df, impact, recommendations>>

CallRecommend ==
    /\ pc = "identified"
    /\ \E pa \in PriorityArgs :
          /\ recommendations' = generate_recommendations(bottlenecks, pa)
          /\ args' = [args EXCEPT !.priority_analysis = pa]
    /\ pc' = "recommended"
    /\ UNCHANGED <<csv, df, stage_df, stage_pairs, stage_summary, bottlenecks,
                   priority_pivot, resolution_df, impact>>

CallImprovementImpact ==
    /\ pc = "call_on_summary"
    /\ \E t \in TicketCounts, p \in ImprovementPcts, c \in HourlyCosts :
          /\ impact' = calculate_improvement_impact(stage_summary, t, p, c)
          /\ args' = [args EXCEPT !.annual_tickets = t, !.improvement_pct = p,
                                  !.hourly_cost = c]
    /\ pc' = "estimated"
    /\ UNCHANGED <<csv, df, stage_df, stage_pairs, stage_summary, bottlenecks,
                   priority_pivot, resolution_df, recommendations>>

NextCalls ==
    \/ CallCycleTimes
    \/ CallResolutionTime
    \/ CallIdentifyBottlenecks
    \/ CallRecommend
    \/ CallImprovementImpact

SpecCalls == InitCalls /\ [][NextCalls]_vars

-----------------------------------------------------------------------------
(* Properties of the script (Spec) *)

CyclesReturned ==
    pc \in {"identify", "priority", "resolution", "impact", "recommend", "done", "cycled"}

ResolutionReturned == pc \in {"impact", "recommend", "done"}

BottlenecksReturned == pc \in {"priority", "resolution", "impact", "recommend", "done"}

CasesOf(d) == { d[i].Case_ID : i \in DOMAIN d }

(* the transitions that start at a row of case c, in the order emitted *)
PairsOfCase(c) == SelectSeq(stage_pairs, LAMBDA p : df[p[1]].Case_ID = c)

DurationsOfCase(c) ==
    LET ks == SetToSeq({ k \in DOMAIN stage_pairs : df[stage_pairs[k][1]].Case_ID = c })
    IN  [i \in DOMAIN ks |-> stage_df[ks[i]].Duration_Hours]

(* C1: once calculate_stage_cycle_times has returned, for a table in any row
   order, every case with N events has exactly N-1 transitions; they join the case's events into one
   chain that visits every event of the case, in non-decreasing timestamp
   order (so each adjacent pair of that order is there exactly once); no
   transition joins events of two cases; and each record carries the labels
   and the time difference of the two events it joins. *)
C1_TransitionsPerCase ==
    CyclesReturned =>
        /\ Len(stage_df) = Len(stage_pairs)
        /\ \A k \in DOMAIN stage_pairs :
              LET a == df[stage_pairs[k][1]]
                  b == df[stage_pairs[k][2]]
              IN  /\ a.Case_ID = b.Case_ID
                  /\ a.Timestamp <= b.Timestamp
                  /\ stage_df[k].From_Stage = a.Activity
                  /\ stage_df[k].To_Stage = b.Activity
                  /\ stage_df[k].Duration_Hours = b.Timestamp - a.Timestamp
        /\ \A c \in CasesOf(df) :
              LET P == PairsOfCase(c)
                  N == Cardinality(CaseRows(df, c))
              IN  /\ Len(P) = N - 1
                  /\ \A k \in 1..(Len(P) - 1) : P[k][2] = P[k + 1][1]
                  /\ N >= 2 => { P[k][1] : k \in DOMAIN P } \cup { P[k][2] : k \in DOMAIN P }
                                  = CaseRows(df, c)

(* a case of one event amid a case of two events that stand in the table
   against their time order: one transition in all, from the later row *)
C1_Witness ==
    /\ pc = "cycled"
    /\ Len(df) = 3
    /\ df[1].Case_ID = df[3].Case_ID
    /\ df[2].Case_ID # df[1].Case_ID
    /\ df[1].Timestamp > df[3].Timestamp
    /\ stage_pairs = << <<3, 1>> >>
    /\ stage_df[1].Duration_Hours > 0

(* C2: once both functions have returned, for every case the sum of the
   Duration_Hours of its transitions equals the Total_Hours of its
   resolution record; both are 0 for a case of one event. *)
C2_DurationsTelescope ==
    ResolutionReturned =>
        /\ { resolution_df[i].Case_ID : i \in DOMAIN resolution_df } = CasesOf(df)
        /\ \A i \in DOMAIN resolution_df :
              LET c == resolution_df[i].Case_ID
              IN  /\ SumSeq(DurationsOfCase(c)) = resolution_df[i].Total_Hours
                  /\ Cardinality(CaseRows(df, c)) = 1 => resolution_df[i].Total_Hours = 0

(* a case whose events are more than a day apart, beside a one-event case *)
C2_Witness ==
    /\ ResolutionReturned
    /\ \E i, j \in DOMAIN resolution_df :
          /\ resolution_df[i].Total_Hours = 40 * Hour
          /\ Len(DurationsOfCase(resolution_df[i].Case_ID)) = 1
          /\ Cardinality(CaseRows(df, resolution_df[j].Case_ID)) = 1

(* the stages whose mean Duration_Hours, at full precision, exceeds th *)
StagesAbove(st, th) ==
    { s \in Range(GroupKeys(st)) :
        LET ds == GroupDurations(st, s) IN SumSeq(ds) > th * Len(ds) }

(* C3: the stages of identify_bottlenecks(summary, threshold) are exactly
   the stages whose mean transition duration is strictly above the
   threshold. *)
C3_BottlenecksAreStagesAboveThreshold ==
    BottlenecksReturned => IndexOf(bottlenecks) = StagesAbove(stage_df, args.threshold_hours)

(* C5: after a non-empty log is loaded, no step of the script raises. *)
C5_PipelineNeverRaises ==
    Len(csv) >= 1 => pc # "error"

(* the place of a stage among the groups, before the sort by Avg_Hours *)
GroupPlace(s) == CHOOSE i \in DOMAIN StageNames : StageNames[i] = s

(* the mean Duration_Hours of stage s, at full precision, exceeds that of t *)
MeanAbove(s, t) ==
    LET a == GroupDurations(stage_df, s)
        b == GroupDurations(stage_df, t)
    IN  SumSeq(a) * Len(b) > SumSeq(b) * Len(a)

(* C10: the summary has one row per From_Stage observed, with Count the
   number of its transitions, in descending order of mean duration, stages
   of equal mean in the order the groups had before the sort. *)
C10_SummaryStableDescending ==
    CyclesReturned =>
        /\ Len(stage_summary) = Cardinality({ stage_df[k].From_Stage : k \in DOMAIN stage_df })
        /\ \A i \in DOMAIN stage_summary :
              stage_summary[i].Count =
                 Cardinality({ k \in DOMAIN stage_df :
                                 stage_df[k].From_Stage = stage_summary[i].From_Stage })
        /\ \A i, j \in DOMAIN stage_summary :
              i < j =>
                 LET s == stage_summary[i].From_Stage
                     t == stage_summary[j].From_Stage
                 IN  \/ MeanAbove(s, t)
                     \/ ~MeanAbove(t, s) /\ GroupPlace(s) < GroupPlace(t)

-----------------------------------------------------------------------------
(* Properties of the direct calls (SpecCalls) *)

(* C4: with a threshold >= 0, every row of identify_bottlenecks carries the
   one tier of its Avg_Hours under right-closed bins: (0,30] MODERATE,
   (30,40] HIGH, above 40 CRITICAL. *)
C4_SeverityRightClosedBins ==
    (pc \in {"identified", "recommended"} /\ args.threshold_hours >= 0) =>
        \A i \in DOMAIN bottlenecks :
            LET a == bottlenecks[i].Avg_Hours
                v == bottlenecks[i].Severity
            IN  /\ a > 0
                /\ v \in {"MODERATE", "HIGH", "CRITICAL"}
                /\ v = "MODERATE" <=> a <= 30 * Hour
                /\ v = "HIGH" <=> (a > 30 * Hour /\ a <= 40 * Hour)
                /\ v = "CRITICAL" <=> a > 40 * Hour

(* a stage at exactly 30 h and a stage at exactly 40 h among the bottlenecks *)
C4_Witness ==
    /\ pc = "identified"
    /\ args.threshold_hours = DefaultThresholdHours * Hour
    /\ \E i, j \in DOMAIN bottlenecks :
          /\ bottlenecks[i].Avg_Hours = 30 * Hour /\ bottlenecks[i].Severity = "MODERATE"
          /\ bottlenecks[j].Avg_Hours = 40 * Hour /\ bottlenecks[j].Severity = "HIGH"

(* the largest sum of Avg_Hours over min(2, n) rows of the summary *)
TopTwoSum(summary) ==
    LET n == IF Len(summary) < 2 THEN Len(summary) ELSE 2
    IN  SetMax({ SumSeq([i \in DOMAIN SetToSeq(S) |-> summary[SetToSeq(S)[i]].Avg_Hours]) :
                 S \in { T \in SUBSET DOMAIN summary : Cardinality(T) = n } })

(* the chain of products on the sum t (milli-hours), as exact rationals *)
ChainOf(t) ==
    LET saved  == Rat(t * args.improvement_pct, Hour * 100)
        annual == Rat(saved.n * args.annual_tickets, saved.d)
    IN  [total  |-> Rat(t, Hour),
         saved  |-> saved,
         annual |-> annual,
         cost   |-> Rat(annual.n * args.hourly_cost, annual.d),
         fte    |-> Rat(annual.n, annual.d * 2080)]

(* v units of 10^-k are exactly the rational x *)
Exactly(v, x, k) == v * x.d = x.n * Pow10(k)

(* v units of 10^-k are a nearest multiple of 10^-k to the rational x *)
Nearest(v, x, k) ==
    LET e == v * x.d - x.n * Pow10(k) IN 2 * e <= x.d /\ -2 * e <= x.d

(* C6 as stated: the dict holds the five quantities themselves. *)
C6_ImpactReturnsExactQuantities ==
    pc = "estimated" =>
        LET c == ChainOf(TopTwoSum(stage_summary))
        IN  /\ Exactly(impact.bottleneck_hours_per_ticket, c.total, 2)
            /\ Exactly(impact.hours_saved_per_ticket, c.saved, 2)
            /\ Exactly(impact.annual_hours_saved, c.annual, 0)
            /\ Exactly(impact.annual_cost_savings, c.cost, 0)
            /\ Exactly(impact.fte_equivalency, c.fte, 2)

(* C6, amended: the sum is over the min(2, n) rows of largest Avg_Hours of
   the table passed (0 for an empty table), and the dict holds the five
   quantities of the chain rounded to 2, 2, 0, 0 and 2 decimal places. *)
C6_ImpactReturnsRoundedQuantities ==
    pc = "estimated" =>
        LET c == ChainOf(TopTwoSum(stage_summary))
        IN  /\ Exactly(impact.bottleneck_hours_per_ticket, c.total, 2)
            /\ Nearest(impact.hours_saved_per_ticket, c.saved, 2)
            /\ Nearest(impact.annual_hours_saved, c.annual, 0)
            /\ Nearest(impact.annual_cost_savings, c.cost, 0)
            /\ Nearest(impact.fte_equivalency, c.fte, 2)
            /\ stage_summary = <<>> => impact.bottleneck_hours_per_ticket = 0

(* the summary {10 h, 50 h} with improvement_pct 0.30: 60 h and 18 h *)
C6_Witness ==
    /\ pc = "estimated"
    /\ Len(stage_summary) = 2
    /\ stage_summary[1].Avg_Hours = 10 * Hour
    /\ stage_summary[2].Avg_Hours = 50 * Hour
    /\ args.improvement_pct = DefaultImprovementPct
    /\ args.annual_tickets = DefaultAnnualTickets
    /\ impact.bottleneck_hours_per_ticket = 6000
    /\ impact.hours_saved_per_ticket = 1800
    /\ impact.fte_equivalency = 433

(* the dict of the same call with improvement_pct doubled *)
ImpactAtDoublePct ==
    calculate_improvement_impact(stage_summary, args.annual_tickets,
                                 2 * args.improvement_pct, args.hourly_cost)

AbsDiff(a, b) == IF a >= b THEN a - b ELSE b - a

(* C7 as stated: doubling improvement_pct exactly doubles the returned
   hours_saved_per_ticket and annual_cost_savings. *)
C7_ReturnedValuesExactlyDouble ==
    pc = "estimated" =>
        /\ ImpactAtDoublePct.hours_saved_per_ticket = 2 * impact.hours_saved_per_ticket
        /\ ImpactAtDoublePct.annual_cost_savings = 2 * impact.annual_cost_savings

(* C7, amended: doubling improvement_pct changes the returned
   hours_saved_per_ticket and annual_cost_savings to twice their value up to
   one unit of their rounding (0.01 hours, 1 unit of cost). *)
C7_ReturnedValuesDoubleUpToRounding ==
    pc = "estimated" =>
        /\ AbsDiff(ImpactAtDoublePct.hours_saved_per_ticket, 2 * impact.hours_saved_per_ticket) <= 1
        /\ AbsDiff(ImpactAtDoublePct.annual_cost_savings, 2 * impact.annual_cost_savings) <= 1

(* a call whose returned hours are not doubled: 0.12 h * 0.30 = 0.036 -> 0.04,
   0.12 h * 0.60 = 0.072 -> 0.07 *)
C7_Witness ==
    /\ pc = "estimated"
    /\ impact.hours_saved_per_ticket > 0
    /\ ImpactAtDoublePct.hours_saved_per_ticket # 2 * impact.hours_saved_per_ticket

(* C8: the list is [reminder?, verification?, resourcing, knowledge base]:
   the reminder record iff 'Investigation Started' is a bottleneck, the
   verification record iff 'Solution Implemented' is one, the last two
   always; whatever priority_analysis is. *)
C8_RecommendationList ==
    pc = "recommended" =>
        LET hasI == \E i \in DOMAIN bottlenecks : bottlenecks[i].From_Stage = "Investigation Started"
            hasS == \E i \in DOMAIN bottlenecks : bottlenecks[i].From_Stage = "Solution Implemented"
            n    == Len(recommendations)
            acts == [i \in DOMAIN recommendations |-> recommendations[i].Action]
        IN  /\ n = 2 + (IF hasI THEN 1 ELSE 0) + (IF hasS THEN 1 ELSE 0)
            /\ acts[n] = "Build searchable knowledge base with solution templates"
            /\ acts[n - 1] = "Dedicate resources for critical/high priority tickets with <4 hour SLA"
            /\ hasI => acts[1] = "Implement automated reminder system for tickets waiting >48 hours"
            /\ hasS => acts[n - 2] = "Create self-service verification portal with auto-close after 72 hours"
            /\ \A pa \in PriorityArgs : generate_recommendations(bottlenecks, pa) = recommendations

(* only 'Solution Implemented' is a bottleneck: three records *)
C8_Witness ==
    /\ pc = "recommended"
    /\ IndexOf(stage_summary) = {"Investigation Started", "Solution Implemented"}
    /\ IndexOf(bottlenecks) = {"Solution Implemented"}
    /\ args.priority_analysis # <<>>
    /\ Len(recommendations) = 3

(* the rows of every case stand in ascending order of Timestamp *)
CasesInTimeOrder(d) ==
    \A i, j \in DOMAIN d :
        (i < j /\ d[i].Case_ID = d[j].Case_ID) => d[i].Timestamp <= d[j].Timestamp

(* one record per case; Total_Hours is max - min of the case's timestamps;
   Priority and Category are those of an event at the case's minimum *)
ResolutionRecordsRight ==
    /\ Len(resolution_df) = Cardinality(CasesOf(df))
    /\ { resolution_df[i].Case_ID : i \in DOMAIN resolution_df } = CasesOf(df)
    /\ \A i \in DOMAIN resolution_df :
          LET rows == CaseRows(df, resolution_df[i].Case_ID)
              ts   == { df[k].Timestamp : k \in rows }
          IN  /\ resolution_df[i].Total_Hours = SetMax(ts) - SetMin(ts)
              /\ Cardinality(rows) = 1 => resolution_df[i].Total_Hours = 0
              /\ \E k \in rows :
                    /\ df[k].Timestamp = SetMin(ts)
                    /\ df[k].Priority = resolution_df[i].Priority
                    /\ df[k].Category = resolution_df[i].Category

=============================================================================
